---------------------------- MODULE Spec2Model ----------------------------
(***************************************************************************)
(* Model of src/main.py: the daily -> monthly OHLCV pipeline               *)
(*   load_and_prepare_data -> aggregate_to_monthly ->                      *)
(*   add_technical_indicators -> save_by_ticker                            *)
(* run once by the __main__ block inside one try/except.                   *)
(*                                                                         *)
(* Tables (DataFrames) are sequences of records.  Prices and volumes are   *)
(* integers.  Indicator values are exact rationals: an SMA is num/den, an  *)
(* EMA is num/(span+1)^exp with an arbitrary-precision numerator, so that  *)
(* a 20-month window and a 21-step recursion are computed without          *)
(* rounding and without overflow.                                          *)
(***************************************************************************)
EXTENDS Integers, Sequences, FiniteSets, TLC

VARIABLES
    readable,      \* whether INPUT_FILE can be read
    header,        \* the column names of INPUT_FILE
    raw,           \* the data rows of INPUT_FILE, in file order
    pc,            \* where the __main__ block is
    raw_data,      \* result of load_and_prepare_data
    monthly_data,  \* result of aggregate_to_monthly
    final_data,    \* result of add_technical_indicators
    tickers,       \* save_by_ticker: df['ticker'].unique()
    nwritten,      \* save_by_ticker: iterations of the loop completed
    files,         \* the files this run has put into OUTPUT_DIR
    log            \* the log records emitted so far

vars == <<readable, header, raw, pc, raw_data, monthly_data, final_data,
          tickers, nwritten, files, log>>

---------------------------------------------------------------------------
(* Bounds of the model.                                                    *)

\* Longest input file (rows) of the small, freely chosen tables.
MaxRows == 3
\* Longest monthly series of one ticker in the long tables.
MaxMonths == 21
\* Most rows of the other ticker in the long tables.
MaxOther == 2

\* Ticker symbols, listed in the order string comparison gives them.
Tickers == <<"AAA", "BBB">>

TickerSet == {Tickers[i] : i \in DOMAIN Tickers}

\* First calendar year of the generated dates.
BaseYear == 2023

---------------------------------------------------------------------------
(* Calendar.                                                               *)

IsLeap(y) == (y % 4 = 0 /\ y % 100 # 0) \/ y % 400 = 0

DaysInMonth(y, m) ==
    IF m = 2 THEN (IF IsLeap(y) THEN 29 ELSE 28)
    ELSE IF m \in {4, 6, 9, 11} THEN 30 ELSE 31

\* A date string "YYYY-MM-DD" names a calendar day.
ValidDate(s) == s.m \in 1..12 /\ s.d \in 1..DaysInMonth(s.y, s.m)

\* pd.to_datetime on one well-formed cell: the Timestamp of that day.
to_datetime(s) == [y |-> s.y, m |-> s.m, d |-> s.d]

\* Timestamps are totally ordered; DateKey is monotone in that order.
DateKey(t) == (t.y * 12 + (t.m - 1)) * 32 + t.d

\* freq='D': every day is a bin of its own.
MonthEnd_Daily(t) == t

\* freq='ME': the label of a day's bin is the last day of its month.
MonthEnd(t) == [y |-> t.y, m |-> t.m, d |-> DaysInMonth(t.y, t.m)]

---------------------------------------------------------------------------
(* Sorting by ['ticker', 'date'].                                          *)

TickerRank(t) == CHOOSE i \in DOMAIN Tickers : Tickers[i] = t

KeyLess(a, b) ==
    \/ TickerRank(a.ticker) < TickerRank(b.ticker)
    \/ a.ticker = b.ticker /\ DateKey(a.date) < DateKey(b.date)

\* A table given row by row, as the sequence of its rows.
Table(f) == f \o <<>>

\* A sort that does not keep rows of equal keys in their order.
SortRank_Unstable(df, i) ==
    1 + Cardinality({j \in 1..Len(df) :
            \/ KeyLess(df[j], df[i])
            \/ ~KeyLess(df[i], df[j]) /\ ~KeyLess(df[j], df[i]) /\ j > i})

\* Position of row i after a stable sort: rows with a smaller key come
\* first, and among equal keys the rows that were earlier.
SortRank(df, i) ==
    1 + Cardinality({j \in 1..Len(df) :
            \/ KeyLess(df[j], df[i])
            \/ ~KeyLess(df[i], df[j]) /\ ~KeyLess(df[j], df[i]) /\ j < i})

sort_values(df) ==
    LET rank == Table([i \in 1..Len(df) |-> SortRank(df, i)])
    IN  Table([p \in 1..Len(df) |-> df[CHOOSE i \in 1..Len(df) : rank[i] = p]])

---------------------------------------------------------------------------
(* Step 1: ingestion.                                                      *)

AllColumns == {"ticker", "date", "open", "high", "low", "close", "volume"}

\* read_csv raises when the file is missing; df['date'] and sort_values
\* raise KeyError without their columns; to_datetime raises on a cell that
\* is no calendar date.
LoadError(rd, hd, table) ==
    IF ~rd THEN "FileNotFoundError"
    ELSE IF "date" \notin hd THEN "KeyError"
    ELSE IF \E i \in 1..Len(table) : ~ValidDate(table[i].date) THEN "ValueError"
    ELSE IF "ticker" \notin hd THEN "KeyError"
    ELSE "none"

load_and_prepare_data(table) ==
    sort_values(Table([i \in 1..Len(table) |->
                    [table[i] EXCEPT !.date = to_datetime(table[i].date)]]))

---------------------------------------------------------------------------
(* Step 2: monthly aggregation.                                            *)

Max(S) == CHOOSE x \in S : \A y \in S : y <= x
Min(S) == CHOOSE x \in S : \A y \in S : x <= y

RECURSIVE SumVolume(_, _)
SumVolume(df, idxs) ==
    IF idxs = {} THEN 0
    ELSE LET i == Min(idxs) IN df[i].volume + SumVolume(df, idxs \ {i})

GroupKey(row) == [ticker |-> row.ticker, date |-> MonthEnd(row.date)]

RECURSIVE unique(_)
\* The distinct values of a column, in order of first appearance.
unique(col) ==
    IF Len(col) = 0 THEN <<>>
    ELSE LET u == unique(SubSeq(col, 1, Len(col) - 1))
             v == col[Len(col)]
         IN  IF \E p \in 1..Len(u) : u[p] = v THEN u ELSE Append(u, v)

\* The group keys present in df, in ascending (ticker, month end) order
\* (groupby sorts its keys).
GroupKeys(df) ==
    sort_values(unique(Table([i \in 1..Len(df) |-> GroupKey(df[i])])))

\* 'high' reduced with 'first' instead of 'max', 'low' with 'last'.
AggregateGroup_Snapshot(df, g) ==
    LET idxs == {i \in 1..Len(df) : GroupKey(df[i]) = g}
    IN  [ticker |-> g.ticker,
         date   |-> g.date,
         open   |-> df[Min(idxs)].open,
         close  |-> df[Max(idxs)].close,
         high   |-> df[Min(idxs)].high,
         low    |-> df[Max(idxs)].low,
         volume |-> SumVolume(df, idxs)]

\* 'open' taken from the close column.
AggregateGroup_OpenFromClose(df, g) ==
    LET idxs == {i \in 1..Len(df) : GroupKey(df[i]) = g}
    IN  [ticker |-> g.ticker,
         date   |-> g.date,
         open   |-> df[Min(idxs)].close,
         close  |-> df[Max(idxs)].close,
         high   |-> Max({df[i].high : i \in idxs}),
         low    |-> Min({df[i].low : i \in idxs}),
         volume |-> SumVolume(df, idxs)]

\* One group reduced: 'first' and 'last' go by the rows' positions in df.
AggregateGroup(df, g) ==
    LET idxs == {i \in 1..Len(df) : GroupKey(df[i]) = g}
    IN  [ticker |-> g.ticker,
         date   |-> g.date,
         open   |-> df[Min(idxs)].open,
         close  |-> df[Max(idxs)].close,
         high   |-> Max({df[i].high : i \in idxs}),
         low    |-> Min({df[i].low : i \in idxs}),
         volume |-> SumVolume(df, idxs)]

AggregateError(hd) ==
    IF {"open", "close", "high", "low", "volume"} \subseteq hd THEN "none"
    ELSE "KeyError"

aggregate_to_monthly(df) ==
    LET keys == GroupKeys(df)
    IN  Table([p \in 1..Len(keys) |-> AggregateGroup(df, keys[p])])

---------------------------------------------------------------------------
(* Numbers.                                                                *)

\* Arbitrary-precision naturals: little-endian limbs, no leading zero limb.
LimbBase == 10 ^ 4

RECURSIVE BigCarry(_)
BigCarry(c) ==
    IF c = 0 THEN <<>> ELSE <<c % LimbBase>> \o BigCarry(c \div LimbBase)

BigFromInt(n) == BigCarry(n)

RECURSIVE BigMulCarry(_, _, _)
BigMulCarry(a, m, c) ==
    IF a = <<>> THEN BigCarry(c)
    ELSE LET v == a[1] * m + c
         IN  <<v % LimbBase>> \o BigMulCarry(Tail(a), m, v \div LimbBase)

\* a * m for a small natural m >= 1.
BigMulSmall(a, m) == BigMulCarry(a, m, 0)

RECURSIVE BigAddCarry(_, _, _)
BigAddCarry(a, b, c) ==
    IF a = <<>> /\ b = <<>> THEN BigCarry(c)
    ELSE LET x == IF a = <<>> THEN 0 ELSE a[1]
             y == IF b = <<>> THEN 0 ELSE b[1]
             v == x + y + c
         IN  <<v % LimbBase>>
                \o BigAddCarry(IF a = <<>> THEN a ELSE Tail(a),
                               IF b = <<>> THEN b ELSE Tail(b),
                               v \div LimbBase)

BigAdd(a, b) == BigAddCarry(a, b, 0)

RECURSIVE BigMulPow(_, _, _)
\* a * m^e
BigMulPow(a, m, e) ==
    IF e = 0 THEN a ELSE BigMulPow(BigMulSmall(a, m), m, e - 1)

\* The rational num / base^exp.
Frac(num, base, exp) == [nan |-> FALSE, num |-> num, base |-> base, exp |-> exp]

\* The missing value (NaN).
NaN == [nan |-> TRUE, num |-> <<>>, base |-> 1, exp |-> 0]

FracFromInt(x, base) == Frac(BigFromInt(x), base, 0)

\* v * (p / base)
FracScale(v, p) == Frac(BigMulSmall(v.num, p), v.base, v.exp + 1)

\* a + b, for two fractions of one base.
FracAdd(a, b) ==
    LET e == IF a.exp >= b.exp THEN a.exp ELSE b.exp
    IN  Frac(BigAdd(BigMulPow(a.num, a.base, e - a.exp),
                    BigMulPow(b.num, b.base, e - b.exp)), a.base, e)

\* Numeric equality of two values of one base (NaN equals nothing).
FracEq(a, b) ==
    /\ ~a.nan /\ ~b.nan
    /\ LET e == IF a.exp >= b.exp THEN a.exp ELSE b.exp
       IN  BigMulPow(a.num, a.base, e - a.exp) = BigMulPow(b.num, b.base, e - b.exp)

---------------------------------------------------------------------------
(* Step 3: indicators.                                                     *)

RECURSIVE SumRange(_, _, _)
SumRange(x, lo, hi) == IF lo > hi THEN 0 ELSE x[hi] + SumRange(x, lo, hi - 1)

\* min_periods=1: the mean of what there is while the window is not full.
rolling_mean_MinPeriods1(x, w) ==
    Table([p \in 1..Len(x) |->
            IF p < w THEN Frac(BigFromInt(SumRange(x, 1, p)), p, 1)
            ELSE Frac(BigFromInt(SumRange(x, p - w + 1, p)), w, 1)])

\* x.rolling(window=w).mean(): min_periods defaults to the window.
rolling_mean(x, w) ==
    Table([p \in 1..Len(x) |->
            IF p < w THEN NaN
            ELSE Frac(BigFromInt(SumRange(x, p - w + 1, p)), w, 1)])

RECURSIVE ewm_mean_Swapped(_, _)
\* The two weights exchanged: y_t = alpha * y_(t-1) + (1 - alpha) * x_t.
ewm_mean_Swapped(x, s) ==
    IF Len(x) = 0 THEN <<>>
    ELSE IF Len(x) = 1 THEN <<FracFromInt(x[1], s + 1)>>
    ELSE LET y == ewm_mean_Swapped(SubSeq(x, 1, Len(x) - 1), s)
         IN  Append(y, FracAdd(FracScale(y[Len(y)], 2),
                               FracScale(FracFromInt(x[Len(x)], s + 1), s - 1)))

RECURSIVE ewm_mean(_, _)
\* x.ewm(span=s, adjust=False).mean(): y_1 = x_1 and, with alpha = 2/(s+1),
\* y_t = (1 - alpha) * y_(t-1) + alpha * x_t.
ewm_mean(x, s) ==
    IF Len(x) = 0 THEN <<>>
    ELSE IF Len(x) = 1 THEN <<FracFromInt(x[1], s + 1)>>
    ELSE LET y == ewm_mean(SubSeq(x, 1, Len(x) - 1), s)
         IN  Append(y, FracAdd(FracScale(y[Len(y)], s - 1),
                               FracScale(FracFromInt(x[Len(x)], s + 1), 2)))

\* The column taken without the groupby: the closes of all rows.
GroupCloses_Ungrouped(df, t) == Table([p \in 1..Len(df) |-> df[p].close])

\* The 'close' column of ticker t's rows, in table order.
GroupCloses(df, t) ==
    LET InGroup(r) == r.ticker = t
        g == SelectSeq(df, InGroup)
    IN  Table([p \in 1..Len(g) |-> g[p].close])

\* Row i's position within its ticker's group.
GroupPos(df, i) == Cardinality({j \in 1..i : df[j].ticker = df[i].ticker})

TickerColumn(df) == Table([i \in 1..Len(df) |-> df[i].ticker])

\* The groups of df.groupby('ticker').
Groups(df) == unique(TickerColumn(df))

GroupIndex(groups, t) == CHOOSE g \in 1..Len(groups) : groups[g] = t

\* group.transform(lambda x: x.rolling(window=w).mean()): the function is
\* applied to each ticker's closes on its own and the results are put back
\* at the rows they came from.
transform_rolling(df, w) ==
    LET groups == Groups(df)
        per == Table([g \in 1..Len(groups) |->
                        rolling_mean(GroupCloses(df, groups[g]), w)])
    IN  Table([i \in 1..Len(df) |->
                per[GroupIndex(groups, df[i].ticker)][GroupPos(df, i)]])

\* group.transform(lambda x: x.ewm(span=s, adjust=False).mean())
transform_ewm(df, s) ==
    LET groups == Groups(df)
        per == Table([g \in 1..Len(groups) |->
                        ewm_mean(GroupCloses(df, groups[g]), s)])
    IN  Table([i \in 1..Len(df) |->
                per[GroupIndex(groups, df[i].ticker)][GroupPos(df, i)]])

add_technical_indicators(df) ==
    LET s == sort_values(df)
        sma10 == transform_rolling(s, 10)
        sma20 == transform_rolling(s, 20)
        ema10 == transform_ewm(s, 10)
        ema20 == transform_ewm(s, 20)
    IN  Table([i \in 1..Len(s) |->
            [ticker |-> s[i].ticker, date |-> s[i].date,
             open |-> s[i].open, close |-> s[i].close,
             high |-> s[i].high, low |-> s[i].low, volume |-> s[i].volume,
             SMA_10 |-> sma10[i], SMA_20 |-> sma20[i],
             EMA_10 |-> ema10[i], EMA_20 |-> ema20[i]]])

---------------------------------------------------------------------------
(* Step 4: one file per ticker.                                            *)

\* The filter left out: every file gets the whole table.
FilterTicker_All(df, symbol) == df

\* df[df['ticker'] == symbol]
FilterTicker(df, symbol) ==
    LET Match(r) == r.ticker = symbol IN SelectSeq(df, Match)

\* f"result_{symbol}.csv"
FileName(symbol) == <<"result_", symbol, ".csv">>

OutputColumns == <<"ticker", "date", "open", "close", "high", "low", "volume",
                   "SMA_10", "SMA_20", "EMA_10", "EMA_20">>

\* A missing value is written as the empty field.
Blank == [text |-> ""]

CsvField(v) == IF v.nan THEN Blank ELSE v

\* to_csv(index=False): the header line, then one line per row and no
\* index column.
to_csv(df) ==
    [complete |-> TRUE,
     columns  |-> OutputColumns,
     rows     |-> Table([i \in 1..Len(df) |->
                    [df[i] EXCEPT !.SMA_10 = CsvField(@), !.SMA_20 = CsvField(@),
                                  !.EMA_10 = CsvField(@), !.EMA_20 = CsvField(@)]])]

\* What a write that raised may leave behind under the file's name.
TornFile == [complete |-> FALSE, columns |-> <<>>, rows |-> <<>>]

---------------------------------------------------------------------------
(* Input files.                                                            *)

MkRow(t, date, open, high, low, close, volume) ==
    [ticker |-> t, date |-> date, open |-> open, high |-> high, low |-> low,
     close |-> close, volume |-> volume]

\* Two days of January, one of March, and a day that does not exist.
GoodDates == {[y |-> BaseYear, m |-> 1, d |-> 5], [y |-> BaseYear, m |-> 1, d |-> 20],
              [y |-> BaseYear, m |-> 3, d |-> 10]}

BadDate == [y |-> BaseYear, m |-> 2, d |-> 30]

Quotes == {[open |-> 11, high |-> 15, low |-> 9, close |-> 13, volume |-> 100],
           [open |-> 12, high |-> 16, low |-> 8, close |-> 10, volume |-> 70]}

RowPool ==
    {MkRow(t, d, q.open, q.high, q.low, q.close, q.volume) :
        t \in TickerSet, d \in GoodDates, q \in Quotes}
    \cup {MkRow(Tickers[1], BadDate, 11, 15, 9, 13, 100)}

\* Every file of 1..MaxRows rows drawn from the pool, in every order.
SmallTables == UNION {[1..n -> RowPool] : n \in 1..MaxRows}

\* The i-th month counted from January of BaseYear.
MonthDate(i, d) ==
    [y |-> BaseYear + ((i - 1) \div 12), m |-> ((i - 1) % 12) + 1, d |-> d]

\* One row a month: n months of the last ticker, whose closes vary and
\* carry a spike in month sp (none when sp = 0), and o months of the first.
LongRows(n, sp, o) ==
    [i \in 1..o |-> MkRow(Tickers[1], MonthDate(i, 28), 50, 60, 40, 55 - 3 * i, 10)]
    \o [i \in 1..n |->
          LET c == 20 + ((i * i) % 7) + (IF i = sp THEN 9 ELSE 0)
          IN  MkRow(Tickers[Len(Tickers)], MonthDate(i, 15), c - 1, c + 2, c - 2, c, i)]

Reverse(seq) == [i \in 1..Len(seq) |-> seq[Len(seq) + 1 - i]]

\* The long files; every other one is written latest row first.
LongTables ==
    {IF (n + sp + o) % 2 = 0 THEN LongRows(n, sp, o) ELSE Reverse(LongRows(n, sp, o)) :
        n \in 1..MaxMonths, sp \in 0..MaxMonths, o \in 0..MaxOther}

---------------------------------------------------------------------------
(* The run.                                                                *)

Info(msg) == [level |-> "INFO", msg |-> msg]
Error(e) == [level |-> "ERROR", msg |-> "An error occurred", what |-> e]

Completed == Info("ASSESSMENT COMPLETED SUCCESSFULLY!")
Failed == Info("ASSESSMENT FAILED.")

\* Before the try block runs: nothing computed, nothing written or logged.
Start ==
    /\ pc = "load"
    /\ raw_data = <<>> /\ monthly_data = <<>> /\ final_data = <<>>
    /\ tickers = <<>> /\ nwritten = 0
    /\ files = <<>> /\ log = <<>>

\* A file with a column left out of every line (one-row files suffice: the
\* run fails before it looks at a row's other cells).
Without(table, c) ==
    [i \in 1..Len(table) |-> [f \in AllColumns \ {c} |-> table[i][f]]]

InitFiles(tables) ==
    \/ /\ readable = FALSE /\ header = AllColumns /\ raw = <<>>
    \/ /\ readable = TRUE
       /\ \E c \in {"ticker", "date", "volume"} :
            /\ header = AllColumns \ {c}
            /\ \E t \in {u \in tables : Len(u) = 1} : raw = Without(t, c)
    \/ /\ readable = TRUE /\ header = AllColumns /\ raw \in tables

Init == InitFiles(SmallTables) /\ Start

InitLong == InitFiles(LongTables) /\ Start

\* except Exception as e: the error and the failure line are logged.
Except(e, sofar) ==
    /\ pc' = "failed"
    /\ log' = sofar \o <<Error(e), Failed>>

\* raw_data = load_and_prepare_data(INPUT_FILE)
Load ==
    /\ pc = "load"
    /\ LET e == LoadError(readable, header, raw)
           sofar == Append(log, Info("Reading data"))
       IN  IF e = "none"
           THEN /\ raw_data' = load_and_prepare_data(raw)
                /\ log' = Append(sofar, Info("Data loaded and sorted successfully."))
                /\ pc' = "aggregate"
           ELSE /\ Except(e, sofar)
                /\ UNCHANGED raw_data
    /\ UNCHANGED <<readable, header, raw, monthly_data, final_data, tickers,
                   nwritten, files>>

\* monthly_data = aggregate_to_monthly(raw_data)
Aggregate ==
    /\ pc = "aggregate"
    /\ LET e == AggregateError(header)
           sofar == Append(log, Info("Aggregating daily data"))
       IN  IF e = "none"
           THEN /\ monthly_data' = aggregate_to_monthly(raw_data)
                /\ log' = Append(sofar, Info("Aggregation complete."))
                /\ pc' = "indicators"
           ELSE /\ Except(e, sofar)
                /\ UNCHANGED monthly_data
    /\ UNCHANGED <<readable, header, raw, raw_data, final_data, tickers,
                   nwritten, files>>

\* final_data = add_technical_indicators(monthly_data)
Indicators ==
    /\ pc = "indicators"
    /\ final_data' = add_technical_indicators(monthly_data)
    /\ log' = Append(log, Info("Calculating technical indicators"))
    /\ pc' = "save"
    /\ UNCHANGED <<readable, header, raw, raw_data, monthly_data, tickers,
                   nwritten, files>>

\* save_by_ticker up to its loop: tickers = df['ticker'].unique()
SaveBegin ==
    /\ pc = "save"
    /\ tickers' = unique(TickerColumn(final_data))
    /\ nwritten' = 0
    /\ log' = Append(log, Info("Partitioning data"))
    /\ pc' = "write"
    /\ UNCHANGED <<readable, header, raw, raw_data, monthly_data, final_data, files>>

\* One iteration of the loop: the next ticker's rows go to its file.
WriteFile ==
    /\ pc = "write" /\ nwritten < Len(tickers)
    /\ LET symbol == tickers[nwritten + 1]
       IN  files' = (FileName(symbol) :> to_csv(FilterTicker(final_data, symbol)))
                        @@ files
    /\ nwritten' = nwritten + 1
    /\ UNCHANGED <<readable, header, raw, pc, raw_data, monthly_data, final_data,
                   tickers, log>>

\* A failed write that is logged and skipped: the loop goes on.
WriteFails_Skip ==
    /\ pc = "write" /\ nwritten < Len(tickers)
    /\ nwritten' = nwritten + 1
    /\ log' = Append(log, Error("OSError"))
    /\ UNCHANGED <<readable, header, raw, pc, raw_data, monthly_data, final_data,
                   tickers, files>>

\* A failed write that removes what the loop has written so far.
WriteFails_RollBack ==
    /\ pc = "write" /\ nwritten < Len(tickers)
    /\ files' = <<>>
    /\ Except("OSError", log)
    /\ UNCHANGED <<readable, header, raw, raw_data, monthly_data, final_data,
                   tickers, nwritten>>

\* to_csv raises (the directory is gone, the disk is full): the loop is
\* left, and the file may or may not have been created.
WriteFails ==
    /\ pc = "write" /\ nwritten < Len(tickers)
    /\ \/ UNCHANGED files
       \/ files' = (FileName(tickers[nwritten + 1]) :> TornFile) @@ files
    /\ Except("OSError", log)
    /\ UNCHANGED <<readable, header, raw, raw_data, monthly_data, final_data,
                   tickers, nwritten>>

\* The loop is over: save_by_ticker logs the count and returns, and the
\* try block logs the completion line.
SaveEnd ==
    /\ pc = "write" /\ nwritten = Len(tickers)
    /\ log' = log \o <<[level |-> "INFO", msg |-> "Successfully generated files",
                        count |-> Len(tickers)], Completed>>
    /\ pc' = "done"
    /\ UNCHANGED <<readable, header, raw, raw_data, monthly_data, final_data,
                   tickers, nwritten, files>>

Next ==
    \/ Load
    \/ Aggregate
    \/ Indicators
    \/ SaveBegin
    \/ WriteFile
    \/ WriteFails
    \/ SaveEnd

Spec == Init /\ [][Next]_vars

SpecLong == InitLong /\ [][Next]_vars

---------------------------------------------------------------------------
(* What the input file says, read off the file itself.                     *)

\* The tickers that occur in the file.
InputTickers == {raw[i].ticker : i \in 1..Len(raw)}

\* The (ticker, calendar month) pairs that occur in the file.
InputMonths ==
    {<<raw[i].ticker, raw[i].date.y, raw[i].date.m>> : i \in 1..Len(raw)}

\* The calendar months in which ticker t has a row in the file.
MonthsOf(t) ==
    {<<raw[i].date.y, raw[i].date.m>> : i \in {j \in 1..Len(raw) : raw[j].ticker = t}}

\* The run went through its last stage and logged the completion line.
Succeeded == pc = "done"

RECURSIVE SumLen(_, _)
SumLen(f, names) ==
    IF names = {} THEN 0
    ELSE LET n == CHOOSE x \in names : TRUE
         IN  Len(f[n].rows) + SumLen(f, names \ {n})

---------------------------------------------------------------------------
(* C1: after a successful run the files written are exactly one            *)
(* result_<TICKER>.csv per ticker of the input and none for any other      *)
(* ticker, every row of a file carries the file's ticker, no monthly row   *)
(* is in two files, and the files' row counts add up to the number of      *)
(* distinct (ticker, calendar month) pairs of the input.                   *)
PartitionConserved ==
    Succeeded =>
        /\ DOMAIN files = {FileName(t) : t \in InputTickers}
        /\ \A t \in InputTickers :
              /\ files[FileName(t)].complete
              /\ \A i \in 1..Len(files[FileName(t)].rows) :
                    files[FileName(t)].rows[i].ticker = t
        /\ \A t, u \in InputTickers :
              t # u =>
                 \A i \in 1..Len(files[FileName(t)].rows),
                    j \in 1..Len(files[FileName(u)].rows) :
                       files[FileName(t)].rows[i] # files[FileName(u)].rows[j]
        /\ SumLen(files, DOMAIN files) = Cardinality(InputMonths)

\* A successful run over two tickers, one of them with two months.
PartitionWitness ==
    /\ Succeeded
    /\ Cardinality(InputTickers) = 2
    /\ \E t \in InputTickers : Len(files[FileName(t)].rows) = 2

---------------------------------------------------------------------------
(* Groups of the sorted normalized table.                                  *)

\* aggregate_to_monthly has returned (and nothing has failed since).
Aggregated == pc \in {"indicators", "save", "write", "done"}

\* The rows (positions in raw_data) of one (ticker, month) group.
GroupRows(g) == {i \in 1..Len(raw_data) : GroupKey(raw_data[i]) = g}

\* The monthly rows with key g.
MonthlyRows(g) ==
    {p \in 1..Len(monthly_data) :
        monthly_data[p].ticker = g.ticker /\ monthly_data[p].date = g.date}

\* Row i is the chronologically first (last) of the rows idxs: no row has
\* an earlier (later) date, and of the rows of its own date it is the one the
\* sorted table lists first (last).
ChronoFirst(i, idxs) ==
    \A j \in idxs :
        \/ DateKey(raw_data[i].date) < DateKey(raw_data[j].date)
        \/ raw_data[i].date = raw_data[j].date /\ i <= j

ChronoLast(i, idxs) ==
    \A j \in idxs :
        \/ DateKey(raw_data[j].date) < DateKey(raw_data[i].date)
        \/ raw_data[i].date = raw_data[j].date /\ j <= i

---------------------------------------------------------------------------
(* C2: every (ticker, month) group of the sorted normalized table has one  *)
(* monthly row; its open is the open field of the chronologically first    *)
(* row of the group, its close the close field of the chronologically last *)
(* row, its high the largest high, its low the smallest low and its volume *)
(* the sum of the volumes.                                                 *)
MonthlyOHLCV ==
    Aggregated =>
        \A g \in {GroupKey(raw_data[i]) : i \in 1..Len(raw_data)} :
            /\ Cardinality(MonthlyRows(g)) = 1
            /\ LET m == monthly_data[CHOOSE p \in MonthlyRows(g) : TRUE]
                   idxs == GroupRows(g)
               IN  /\ \E f \in idxs : ChronoFirst(f, idxs) /\ m.open = raw_data[f].open
                   /\ \E l \in idxs : ChronoLast(l, idxs) /\ m.close = raw_data[l].close
                   /\ \E i \in idxs : m.high = raw_data[i].high
                   /\ \A i \in idxs : raw_data[i].high <= m.high
                   /\ \E i \in idxs : m.low = raw_data[i].low
                   /\ \A i \in idxs : m.low <= raw_data[i].low
                   /\ m.volume = SumVolume(raw_data, idxs)

\* A group of two days whose later day has the larger high and the smaller
\* low, so that neither is the first row's, and whose open and close differ.
MonthlyOHLCVWitness ==
    /\ Aggregated
    /\ \E p \in 1..Len(monthly_data) :
          LET idxs == GroupRows([ticker |-> monthly_data[p].ticker,
                                 date |-> monthly_data[p].date])
          IN  /\ Cardinality(idxs) = 2
              /\ \E i, j \in idxs :
                    /\ DateKey(raw_data[i].date) < DateKey(raw_data[j].date)
                    /\ raw_data[i].high < raw_data[j].high
                    /\ raw_data[j].low < raw_data[i].low
                    /\ raw_data[i].open # raw_data[j].open
                    /\ raw_data[i].close # raw_data[j].close

---------------------------------------------------------------------------
(* C3, as stated: a group of exactly one input row yields a monthly row    *)
(* with open = close = that row's close, high = its high, low = its low    *)
(* and volume = its volume.                                                *)
SingleRowOpenIsClose ==
    Aggregated =>
        \A g \in {GroupKey(raw_data[i]) : i \in 1..Len(raw_data)} :
            Cardinality(GroupRows(g)) = 1 =>
                LET r == raw_data[CHOOSE i \in GroupRows(g) : TRUE]
                IN  \E p \in MonthlyRows(g) :
                        /\ monthly_data[p].open = r.close
                        /\ monthly_data[p].close = r.close
                        /\ monthly_data[p].high = r.high
                        /\ monthly_data[p].low = r.low
                        /\ monthly_data[p].volume = r.volume

(* C3, amended: a group of exactly one input row yields a monthly row with *)
(* open = that row's open, close = that row's close, high = its high,      *)
(* low = its low and volume = its volume.                                  *)
SingleRowGroup ==
    Aggregated =>
        \A g \in {GroupKey(raw_data[i]) : i \in 1..Len(raw_data)} :
            Cardinality(GroupRows(g)) = 1 =>
                LET r == raw_data[CHOOSE i \in GroupRows(g) : TRUE]
                IN  \E p \in MonthlyRows(g) :
                        /\ monthly_data[p].open = r.open
                        /\ monthly_data[p].close = r.close
                        /\ monthly_data[p].high = r.high
                        /\ monthly_data[p].low = r.low
                        /\ monthly_data[p].volume = r.volume

\* A group of one row whose open and close differ, next to a group of more.
SingleRowWitness ==
    /\ Aggregated
    /\ \E i \in 1..Len(raw_data) :
          /\ Cardinality(GroupRows(GroupKey(raw_data[i]))) = 1
          /\ raw_data[i].open # raw_data[i].close
    /\ \E i \in 1..Len(raw_data) : Cardinality(GroupRows(GroupKey(raw_data[i]))) = 2

---------------------------------------------------------------------------
(* C9: in every file written after add_technical_indicators the rows are   *)
(* in strictly ascending month-end date order, there is exactly one row    *)
(* for each calendar month in which the file's ticker has an input row,    *)
(* and no row for any other month, also not for a month that lies between  *)
(* two observed months.                                                    *)
ArtifactMonths ==
    \A t \in TickerSet :
        (FileName(t) \in DOMAIN files /\ files[FileName(t)].complete) =>
            LET rows == files[FileName(t)].rows
            IN  /\ \A i \in 1..Len(rows) :
                      /\ rows[i].date.d = DaysInMonth(rows[i].date.y, rows[i].date.m)
                      /\ <<rows[i].date.y, rows[i].date.m>> \in MonthsOf(t)
                /\ \A ym \in MonthsOf(t) :
                      Cardinality({i \in 1..Len(rows) :
                          <<rows[i].date.y, rows[i].date.m>> = ym}) = 1
                /\ \A i \in 1..Len(rows) - 1 :
                      DateKey(rows[i].date) < DateKey(rows[i + 1].date)

\* A written file with the rows of January and March and none for February,
\* January holding two days of the input.
ArtifactMonthsWitness ==
    \E t \in TickerSet :
        /\ FileName(t) \in DOMAIN files /\ files[FileName(t)].complete
        /\ Len(files[FileName(t)].rows) = 2
        /\ files[FileName(t)].rows[1].date.m = 1
        /\ files[FileName(t)].rows[2].date.m = 3
        /\ Len(raw) = 3

---------------------------------------------------------------------------
(* Progress of the write loop.                                             *)

\* The run failed in the write loop: the handler logged to_csv's error.
WriteFailed ==
    pc = "failed" /\ Error("OSError") = log[Len(log) - 1]

\* Where ticker t first appears in the enriched table.
FirstAppearance(t) == Min({p \in 1..Len(final_data) : final_data[p].ticker = t})

(* C10: save_by_ticker writes the files one ticker at a time in the order  *)
(* of the tickers' first appearance in the enriched table and takes        *)
(* nothing back: when the write of the k-th ticker's file fails, the files *)
(* of the k-1 earlier tickers are still there, no file of a later ticker   *)
(* has been written, and the run ends as a reported failure with that      *)
(* partial set of files.                                                   *)
WritesInOrder ==
    (pc \in {"write", "done"} \/ WriteFailed) =>
        /\ {tickers[i] : i \in 1..Len(tickers)}
              = {final_data[p].ticker : p \in 1..Len(final_data)}
        /\ \A i, j \in 1..Len(tickers) :
              i < j => FirstAppearance(tickers[i]) < FirstAppearance(tickers[j])
        /\ nwritten \in 0..Len(tickers)
        /\ \A i \in 1..nwritten :
              /\ FileName(tickers[i]) \in DOMAIN files
              /\ files[FileName(tickers[i])].complete
              /\ Len(files[FileName(tickers[i])].rows)
                    = Cardinality({p \in 1..Len(final_data) :
                                      final_data[p].ticker = tickers[i]})
        /\ \A i \in (nwritten + 1)..Len(tickers) :
              FileName(tickers[i]) \in DOMAIN files =>
                 /\ WriteFailed
                 /\ i = nwritten + 1
                 /\ ~files[FileName(tickers[i])].complete
        /\ WriteFailed => nwritten < Len(tickers) /\ log[Len(log)] = Failed

\* The write of the second ticker's file failed: the first ticker's file is
\* there, and only that.
WritesInOrderWitness ==
    /\ WriteFailed
    /\ Len(tickers) = 2 /\ nwritten = 1
    /\ DOMAIN files = {FileName(tickers[1])}
    /\ files[FileName(tickers[1])].complete

---------------------------------------------------------------------------
(* The stages and the log.                                                 *)

StageOrder == <<"load", "aggregate", "indicators", "save", "write", "done">>

StageStarts == {Info("Reading data"), Info("Aggregating daily data"),
                Info("Calculating technical indicators"), Info("Partitioning data")}

\* How many stages have begun, by the log.
StagesStarted == Cardinality({i \in 1..Len(log) : log[i] \in StageStarts})

Logged(r) == \E i \in 1..Len(log) : log[i] = r

FailFastInv ==
    /\ Logged(Failed) <=> pc = "failed"
    /\ pc = "failed" =>
          /\ log[Len(log)] = Failed
          /\ log[Len(log) - 1].level = "ERROR"
          /\ log[Len(log) - 1].what \in
                {"FileNotFoundError", "KeyError", "ValueError", "OSError"}
          /\ ~Logged(Completed)
          /\ StagesStarted = 1 => raw_data = <<>>
          /\ StagesStarted <= 2 => monthly_data = <<>>
          /\ StagesStarted <= 3 => final_data = <<>> /\ files = <<>>
    /\ Logged(Completed) =>
          /\ pc = "done"
          /\ \A t \in InputTickers :
                /\ FileName(t) \in DOMAIN files
                /\ files[FileName(t)].complete

FailFastStep ==
    /\ pc \notin {"failed", "done"}
    /\ \/ pc' = pc
       \/ pc' = "failed"
       \/ \E i \in 1..(Len(StageOrder) - 1) : pc = StageOrder[i] /\ pc' = StageOrder[i + 1]
    /\ StagesStarted' \in {StagesStarted, StagesStarted + 1}
    /\ SubSeq(log', 1, Len(log)) = log

(* C7: the four stages run in the order load, aggregate, indicators,       *)
(* write; when a stage fails no later stage runs, the failure is reported  *)
(* with the error's description, and the completion line is never logged;  *)
(* the completion line is logged only in a state where every ticker's file *)
(* has been written.                                                       *)
FailFast == []FailFastInv /\ [][FailFastStep]_vars

\* The second stage failed: the run is a reported failure, and the monthly
\* table, the enriched table and the output directory are untouched.
FailFastWitness ==
    /\ pc = "failed"
    /\ StagesStarted = 2
    /\ raw_data # <<>>
    /\ monthly_data = <<>> /\ files = <<>>
    /\ log[Len(log) - 1] = Error("KeyError")

---------------------------------------------------------------------------
(* Reorderings of the file.                                                *)

\* The file with rows i and j exchanged.  Exchanges generate every
\* reordering, and the file of every reordering is a file of the model.
Swap(table, i, j) ==
    [table EXCEPT ![i] = table[j], ![j] = table[i]]

\* A monthly table without its order-dependent columns, as a set of rows.
OrderFree(m) ==
    {[ticker |-> m[p].ticker, date |-> m[p].date, high |-> m[p].high,
      low |-> m[p].low, volume |-> m[p].volume] : p \in 1..Len(m)}

\* The rows (positions in the file) of ticker t in the month of date d.
FileGroup(t, d) ==
    {i \in 1..Len(raw) :
        raw[i].ticker = t /\ raw[i].date.y = d.y /\ raw[i].date.m = d.m}

\* Row i of the file is the first (last) of the rows idxs by date, rows of
\* one date taken in file order.
FileFirst(i, idxs) ==
    \A j \in idxs :
        \/ DateKey(raw[i].date) < DateKey(raw[j].date)
        \/ raw[i].date = raw[j].date /\ i <= j

FileLast(i, idxs) ==
    \A j \in idxs :
        \/ DateKey(raw[j].date) < DateKey(raw[i].date)
        \/ raw[i].date = raw[j].date /\ j <= i

\* No two rows of the file have the same ticker and date.
NoTies ==
    \A i, j \in 1..Len(raw) :
        (raw[i].ticker = raw[j].ticker /\ raw[i].date = raw[j].date) => i = j

(* C8: the monthly table made by load_and_prepare_data and                 *)
(* aggregate_to_monthly has the same (ticker, month) rows with the same    *)
(* high, low and volume however the rows of the file are ordered; open and *)
(* close are those of the chronologically first and last row of the group  *)
(* and so do not depend on the order either, except that of the rows of    *)
(* one ticker and one date the one earlier in the file counts as earlier.  *)
OrderIndependent ==
    pc = "indicators" =>
        /\ \A p \in 1..Len(monthly_data) :
              LET idxs == FileGroup(monthly_data[p].ticker, monthly_data[p].date)
              IN  /\ \E f \in idxs :
                        FileFirst(f, idxs) /\ monthly_data[p].open = raw[f].open
                  /\ \E l \in idxs :
                        FileLast(l, idxs) /\ monthly_data[p].close = raw[l].close
        /\ \A i, j \in 1..Len(raw) :
              i < j =>
                 LET other == aggregate_to_monthly(load_and_prepare_data(Swap(raw, i, j)))
                 IN  /\ Len(other) = Len(monthly_data)
                     /\ OrderFree(other) = OrderFree(monthly_data)
                     /\ NoTies => other = monthly_data

\* A file that is not in (ticker, date) order, and a file with two rows of
\* one ticker and date whose exchange changes the monthly open.
OrderIndependentWitness ==
    /\ pc = "indicators"
    /\ Len(raw) = 3
    /\ KeyLess(raw[3], raw[1])
    /\ raw[1].ticker = raw[2].ticker /\ raw[1].date = raw[2].date
    /\ aggregate_to_monthly(load_and_prepare_data(Swap(raw, 1, 2))) # monthly_data

---------------------------------------------------------------------------
(* The indicator columns, ticker by ticker.                                *)

\* add_technical_indicators has just returned.
Enriched == pc = "save"

\* Ticker t's monthly closes c_1..c_n, in the order of the monthly table.
Closes(t) ==
    LET Of(r) == r.ticker = t
        m == SelectSeq(monthly_data, Of)
    IN  Table([i \in 1..Len(m) |-> m[i].close])

\* The dates of the monthly table ascend within every ticker.
Chronological ==
    \A p, q \in 1..Len(monthly_data) :
        (p < q /\ monthly_data[p].ticker = monthly_data[q].ticker) =>
            DateKey(monthly_data[p].date) < DateKey(monthly_data[q].date)

\* v is the mean of c_(i-w+1), ..., c_i.
IsMean(v, c, i, w) ==
    /\ ~v.nan
    /\ BigMulSmall(v.num, w)
          = BigMulPow(BigFromInt(SumRange(c, i - w + 1, i)), v.base, v.exp)

\* Ticker t's rows of the enriched table.
EnrichedRows(t) == LET Of(r) == r.ticker = t IN SelectSeq(final_data, Of)

Sma(row, w) == IF w = 10 THEN row.SMA_10 ELSE row.SMA_20
Ema(row, s) == IF s = 10 THEN row.EMA_10 ELSE row.EMA_20

---------------------------------------------------------------------------
(* C4: for every ticker and k in {10, 20}, with c_1..c_n the ticker's      *)
(* monthly closes in chronological order, SMA_k of the i-th row is missing *)
(* when i < k and is (c_(i-k+1) + ... + c_i) / k when i >= k; a missing    *)
(* SMA is written as the empty field, not as zero, and its row is kept:    *)
(* the enriched table and the files have the rows of the monthly table.    *)
SmaWindows ==
    /\ Enriched =>
          /\ Chronological
          /\ Len(final_data) = Len(monthly_data)
          /\ \A t \in TickerSet, w \in {10, 20} :
                LET f == EnrichedRows(t)
                    c == Closes(t)
                IN  /\ Len(f) = Len(c)
                    /\ \A i \in 1..Len(f) :
                          /\ f[i].close = c[i]
                          /\ i < w => Sma(f[i], w) = NaN
                          /\ i >= w => IsMean(Sma(f[i], w), c, i, w)
    /\ \A t \in TickerSet :
          (FileName(t) \in DOMAIN files /\ files[FileName(t)].complete) =>
              LET rows == files[FileName(t)].rows
              IN  /\ Len(rows) = Len(Closes(t))
                  /\ \A i \in 1..Len(rows), w \in {10, 20} :
                        (i < w) <=> (Sma(rows[i], w) = Blank)

\* A ticker of 21 months, written out: the 20-month mean exists from the
\* 20th row on and is missing before it.
SmaWindowsWitness ==
    \E t \in TickerSet :
        /\ FileName(t) \in DOMAIN files /\ files[FileName(t)].complete
        /\ Len(files[FileName(t)].rows) >= 21
        /\ files[FileName(t)].rows[19].SMA_20 = Blank
        /\ files[FileName(t)].rows[19].SMA_10 # Blank
        /\ files[FileName(t)].rows[21].SMA_20 # Blank

---------------------------------------------------------------------------
(* C5: for every ticker and k in {10, 20}, with c_1..c_n the ticker's      *)
(* monthly closes in chronological order, EMA_k(1) = c_1 exactly and       *)
(* EMA_k(i) = (2/(k+1)) * c_i + (1 - 2/(k+1)) * EMA_k(i-1) for i > 1;      *)
(* EMA_k is defined at every row from the ticker's first.                  *)
EmaRecursion ==
    Enriched =>
        \A t \in TickerSet, s \in {10, 20} :
            LET f == EnrichedRows(t)
                c == Closes(t)
            IN  /\ Len(f) = Len(c)
                /\ \A i \in 1..Len(f) :
                      /\ ~Ema(f[i], s).nan
                      /\ Ema(f[i], s).base = s + 1
                      /\ i = 1 => FracEq(Ema(f[1], s), FracFromInt(c[1], s + 1))
                      /\ i > 1 =>
                            FracEq(Ema(f[i], s),
                                   FracAdd(FracScale(FracFromInt(c[i], s + 1), 2),
                                           FracScale(Ema(f[i - 1], s), s - 1)))

\* A ticker of 21 months whose closes are not all the same.
EmaRecursionWitness ==
    /\ Enriched
    /\ \E t \in TickerSet :
          /\ Len(Closes(t)) >= 21
          /\ Closes(t)[2] # Closes(t)[1]
          /\ ~FracEq(EnrichedRows(t)[21].EMA_20, EnrichedRows(t)[20].EMA_20)

---------------------------------------------------------------------------
(* Files that differ in the rows of other tickers only.                    *)

\* Ticker t's rows of the enriched table df: dates and indicators.
IndicatorsOf(df, t) ==
    LET Of(r) == r.ticker = t
        f == SelectSeq(df, Of)
    IN  Table([i \in 1..Len(f) |->
                 [date |-> f[i].date, SMA_10 |-> f[i].SMA_10, SMA_20 |-> f[i].SMA_20,
                  EMA_10 |-> f[i].EMA_10, EMA_20 |-> f[i].EMA_20]])

\* Other files with the same rows of ticker t: no other ticker at all, and
\* every other ticker with o months of other prices.
Variants(t) ==
    LET Of(r) == r.ticker = t
        own == SelectSeq(raw, Of)
        others == TickerSet \ {t}
        rowsOf(u, o) == [i \in 1..o |-> MkRow(u, MonthDate(i + 1, 3), 7, 99, 1, 70 + 11 * i, 5)]
    IN  {own} \cup
        {rowsOf(u, o) \o own : u \in others, o \in 1..(MaxOther + 1)}

Run(table) ==
    add_technical_indicators(aggregate_to_monthly(load_and_prepare_data(table)))

(* C6: two inputs that agree on all rows of ticker T and differ only in    *)
(* rows of other tickers give every monthly row of T the same SMA_10,      *)
(* SMA_20, EMA_10 and EMA_20; the EMA of T starts from T's own first close *)
(* and no SMA window of T holds a close of the ticker sorted before T.     *)
Isolation ==
    Enriched =>
        \A t \in InputTickers :
            /\ \A other \in Variants(t) :
                  IndicatorsOf(Run(other), t) = IndicatorsOf(final_data, t)
            /\ LET f == EnrichedRows(t)
               IN  /\ FracEq(f[1].EMA_10, FracFromInt(f[1].close, 11))
                   /\ FracEq(f[1].EMA_20, FracFromInt(f[1].close, 21))
                   /\ \A i \in 1..Len(f), w \in {10, 20} :
                         ~Sma(f[i], w).nan => IsMean(Sma(f[i], w), Closes(t), i, w)

\* The last ticker in sort order has a 10-month mean, and the ticker sorted
\* before it has rows whose closes differ from its own.
IsolationWitness ==
    /\ Enriched
    /\ InputTickers = TickerSet
    /\ Len(Closes(Tickers[1])) = 2
    /\ Len(Closes(Tickers[2])) >= 10
    /\ Closes(Tickers[1])[2] # Closes(Tickers[2])[1]

====
